---- MODULE Spec2Model ----
(***************************************************************************)
(* garde's credit_card rule (garde/src/rules/credit_card.rs).              *)
(*                                                                         *)
(* The rule is glue around an external checker:                            *)
(*   apply                 the entrypoint the rule dispatcher calls,       *)
(*   CreditCard            the capability trait (any Display error),       *)
(*   impl for AsRef<str>   the default adapter over card_validate,         *)
(*   InvalidCard           the adapter's error and its Display rendering.  *)
(*                                                                         *)
(* card_validate::Validate::from is another crate.  It is modelled by its  *)
(* signature only: a function of the text it is handed that answers with a *)
(* card descriptor or a ValidateError.  Which text gets which answer is    *)
(* left open: the answer is drawn the first time a text is checked and     *)
(* repeated afterwards (verdicts).  A custom implementation of the trait   *)
(* is modelled the same way (customs), with an error of its own wording.   *)
(***************************************************************************)
EXTENDS Naturals, Sequences, FiniteSets, TLC

\* ------------------------------------------------------------ bounds
\* Texts are all character sequences of at most MaxTextLen characters.
MaxTextLen == 1
\* Calls of apply made in one behaviour, over all threads.
MaxCalls == 2
\* Threads calling apply concurrently.
NumThreads == 2

Threads == 1..NumThreads
\* A digit and a separator: enough to tell a text from its trimmed form.
Chars == {"4", " "}
Texts == UNION {[1..n -> Chars] : n \in 0..MaxTextLen}
\* Values of types with a bespoke implementation of the trait.
CustomIds == {"c1"}

\* ------------------------------------------------------------ values
TextValue(s) == [impl |-> "text", text |-> s]
CustomValue(i) == [impl |-> "custom", id |-> i]
Values == {TextValue(s) : s \in Texts} \cup {CustomValue(i) : i \in CustomIds}

None == [tag |-> "None"]
Ok == [tag |-> "Ok"]
Err(e) == [tag |-> "Err", e |-> e]
\* The &str handed to the checker.
Str(s) == [tag |-> "Str", text |-> s]

\* card_validate::ValidateError: the four kinds the rule names, and one
\* standing for any kind it does not name (the `_` arm).
KnownKinds == {"InvalidFormat", "InvalidLength", "InvalidLuhn", "UnknownType"}
OtherKinds == {"Unlisted"}
RawKinds == KnownKinds \cup OtherKinds
CardTypes == {"Visa"}
\* What card_validate::Validate::from can answer.
CheckerOutcomes ==
    {[tag |-> "Ok", card |-> c] : c \in CardTypes}
        \cup {[tag |-> "Err", kind |-> k] : k \in RawKinds}
NoVerdict == [tag |-> "NoVerdict"]

\* The renderings of a custom implementation's error.
CustomMessages == {"expired"}
CustomError(m) == [type |-> "Custom", text |-> m]
CustomOutcomes == {Ok} \cup {Err(CustomError(m)) : m \in CustomMessages}

\* ------------------------------------------------------------ state
VARIABLES
    pc,        \* per thread: "idle", "called", "validated", "done"
    value,     \* per thread: the value borrowed by the current call
    arg,       \* per frame: the text handed to the external checker
    cap,       \* per frame: what validate_credit_card returned
    result,    \* per thread: what apply returned
    errors,    \* per thread: the Error instances the call constructed
    prev,      \* per thread: the previous call's result, same value
    verdicts,  \* the external checker's answers so far, by text
    customs,   \* the custom implementation's answers so far, by value
    ncalls     \* calls of apply started

vars == <<pc, value, arg, cap, result, errors, prev, verdicts, customs, ncalls>>

\* ------------------------------------------------------------ the rule
\* impl From<card_validate::ValidateError> for InvalidCard
InvalidCard(raw) == [type |-> "InvalidCard", raw |-> raw]

\* A faulty InvalidCard_fmt: a named kind falls through to the fallback.
InvalidCard_fmt_fallthrough(e) ==
    CASE e.raw = "InvalidFormat" -> "invalid format"
      [] e.raw = "InvalidLength" -> "invalid length"
      [] e.raw = "UnknownType" -> "unknown type"
      [] OTHER -> "unknown error"

\* impl Display for InvalidCard
InvalidCard_fmt(e) ==
    CASE e.raw = "InvalidFormat" -> "invalid format"
      [] e.raw = "InvalidLength" -> "invalid length"
      [] e.raw = "InvalidLuhn" -> "invalid luhn"
      [] e.raw = "UnknownType" -> "unknown type"
      [] OTHER -> "unknown error"

\* `{e}` for e: T::Error, any Display type.
Display(e) == IF e.type = "InvalidCard" THEN InvalidCard_fmt(e) ELSE e.text

\* A text without its leading and trailing separators.
RECURSIVE TrimStart(_)
TrimStart(s) ==
    IF s # <<>> /\ Head(s) = " " THEN TrimStart(Tail(s)) ELSE s

RECURSIVE TrimEnd(_)
TrimEnd(s) ==
    IF s # <<>> /\ s[Len(s)] = " " THEN TrimEnd(SubSeq(s, 1, Len(s) - 1)) ELSE s

Trim(s) == TrimEnd(TrimStart(s))

\* A faulty as_ref: the adapter normalises the text before checking it.
as_ref_trimmed(v) == Trim(v.text)

\* self.as_ref(): the text a text-like value holds, as it is.
as_ref(v) == v.text

\* `card_validate::Validate::from(..)?` followed by Ok(()): the descriptor
\* is dropped, an error is converted by From and returned.
Question(o) == IF o.tag = "Err" THEN Err(InvalidCard(o.kind)) ELSE Ok

\* Error::new(message)
Error_new(m) == [message |-> m]

\* The context every message of the rule starts with.
Prefix == "not a valid credit card number: "

\* A faulty apply: the context is worded differently.
apply_other_prefix(c) ==
    IF c.tag = "Err"
    THEN Err(Error_new("invalid credit card: " \o Display(c.e)))
    ELSE Ok

\* A faulty apply: the capability's error is dropped.
apply_swallow(c) == Ok

\* A faulty apply: a static counter lets only the first call report.
apply_first_only(c) ==
    IF c.tag = "Err" /\ ncalls = 1
    THEN Err(Error_new(Prefix \o Display(c.e)))
    ELSE Ok

\* apply, given what v.validate_credit_card() returned.
apply(c) ==
    IF c.tag = "Err"
    THEN Err(Error_new(Prefix \o Display(c.e)))
    ELSE Ok

\* The Error instances apply constructs on that path.
apply_errors(c) ==
    IF c.tag = "Err"
    THEN <<Error_new(Prefix \o Display(c.e))>>
    ELSE <<>>

\* A faulty Frame: the locals are one static shared by all calls.
FrameShared(t) == 1

\* The locals of a call live in the call's own frame.
Frame(t) == t

\* ------------------------------------------------------------ actions
Init ==
    /\ pc = [t \in Threads |-> "idle"]
    /\ value = [t \in Threads |-> None]
    /\ arg = [t \in Threads |-> None]
    /\ cap = [t \in Threads |-> None]
    /\ result = [t \in Threads |-> None]
    /\ errors = [t \in Threads |-> <<>>]
    /\ prev = [t \in Threads |-> None]
    /\ verdicts = [s \in Texts |-> NoVerdict]
    /\ customs = [i \in CustomIds |-> NoVerdict]
    /\ ncalls = 0

\* The dispatcher calls apply(&v, ()).
Call(t, v) ==
    /\ pc[t] \in {"idle", "done"}
    /\ ncalls < MaxCalls
    /\ pc' = [pc EXCEPT ![t] = "called"]
    /\ value' = [value EXCEPT ![t] = v]
    /\ prev' = [prev EXCEPT ![t] =
                    IF pc[t] = "done" /\ value[t] = v THEN result[t] ELSE None]
    /\ arg' = [arg EXCEPT ![Frame(t)] = None]
    /\ cap' = [cap EXCEPT ![Frame(t)] = None]
    /\ result' = [result EXCEPT ![t] = None]
    /\ errors' = [errors EXCEPT ![t] = <<>>]
    /\ ncalls' = ncalls + 1
    /\ UNCHANGED <<verdicts, customs>>

\* A faulty validate_credit_card: the adapter trims the value in place.
validate_credit_card_in_place(t) ==
    /\ pc[t] = "called"
    /\ value[t].impl = "text"
    /\ LET a == Trim(value[t].text) IN
        \E o \in CheckerOutcomes :
            /\ verdicts[a] # NoVerdict => o = verdicts[a]
            /\ verdicts' = [verdicts EXCEPT ![a] = o]
            /\ arg' = [arg EXCEPT ![Frame(t)] = Str(a)]
            /\ cap' = [cap EXCEPT ![Frame(t)] = Question(o)]
            /\ value' = [value EXCEPT ![t] = TextValue(a)]
    /\ pc' = [pc EXCEPT ![t] = "validated"]
    /\ UNCHANGED <<result, errors, prev, customs, ncalls>>

\* v.validate_credit_card() through the default adapter.
validate_credit_card(t) ==
    /\ pc[t] = "called"
    /\ value[t].impl = "text"
    /\ LET a == as_ref(value[t]) IN
        \E o \in CheckerOutcomes :
            /\ verdicts[a] # NoVerdict => o = verdicts[a]
            /\ verdicts' = [verdicts EXCEPT ![a] = o]
            /\ arg' = [arg EXCEPT ![Frame(t)] = Str(a)]
            /\ cap' = [cap EXCEPT ![Frame(t)] = Question(o)]
    /\ pc' = [pc EXCEPT ![t] = "validated"]
    /\ UNCHANGED <<value, result, errors, prev, customs, ncalls>>

\* v.validate_credit_card() through a bespoke implementation.
validate_credit_card_custom(t) ==
    /\ pc[t] = "called"
    /\ value[t].impl = "custom"
    /\ LET i == value[t].id IN
        \E o \in CustomOutcomes :
            /\ customs[i] # NoVerdict => o = customs[i]
            /\ customs' = [customs EXCEPT ![i] = o]
            /\ cap' = [cap EXCEPT ![Frame(t)] = o]
    /\ pc' = [pc EXCEPT ![t] = "validated"]
    /\ UNCHANGED <<value, arg, result, errors, prev, verdicts, ncalls>>

\* A faulty Return: a failed validation is tried again.
ReturnRetry(t) ==
    /\ pc[t] = "validated"
    /\ IF cap[Frame(t)].tag = "Err"
       THEN /\ pc' = [pc EXCEPT ![t] = "called"]
            /\ UNCHANGED <<result, errors>>
       ELSE /\ result' = [result EXCEPT ![t] = apply(cap[Frame(t)])]
            /\ errors' = [errors EXCEPT ![t] = apply_errors(cap[Frame(t)])]
            /\ pc' = [pc EXCEPT ![t] = "done"]
    /\ UNCHANGED <<value, arg, cap, prev, verdicts, customs, ncalls>>

\* apply wraps the capability's result and returns.
Return(t) ==
    /\ pc[t] = "validated"
    /\ result' = [result EXCEPT ![t] = apply(cap[Frame(t)])]
    /\ errors' = [errors EXCEPT ![t] = apply_errors(cap[Frame(t)])]
    /\ pc' = [pc EXCEPT ![t] = "done"]
    /\ UNCHANGED <<value, arg, cap, prev, verdicts, customs, ncalls>>

Next ==
    \E t \in Threads :
        \/ \E v \in Values : Call(t, v)
        \/ validate_credit_card(t)
        \/ validate_credit_card_custom(t)
        \/ Return(t)

Spec == Init /\ [][Next]_vars

\* ------------------------------------------------------------ claims
Done(t) == pc[t] = "done"
StepOf(t) == pc'[t] # pc[t]
Failed(t) == Done(t) /\ result[t].tag = "Err"
Message(t) == result[t].e.message
\* The five reasons the rule's own adapter can report.
FiveReasons ==
    {"invalid format", "invalid length", "invalid luhn", "unknown type",
     "unknown error"}

\* C1, as stated: whatever implementation the value's type has, apply returns
\* success or an error whose message is the context followed by one of the
\* five reasons.
C1_AnyImplFiveReasons ==
    \A t \in Threads :
        Done(t) =>
            \/ result[t] = Ok
            \/ /\ result[t].tag = "Err"
               /\ \E r \in FiveReasons : Message(t) = Prefix \o r

\* C1, amended: apply returns success or an error whose message is the
\* context followed, for a value of the default text adapter, by one of the
\* five reasons and, for a value of a custom implementation, by the rendering
\* of that implementation's own error.
C1_MessageShape ==
    \A t \in Threads :
        Done(t) =>
            \/ result[t] = Ok
            \/ /\ result[t].tag = "Err"
               /\ DOMAIN result[t].e = {"message"}
               /\ IF value[t].impl = "text"
                  THEN \E r \in FiveReasons :
                           Message(t) = "not a valid credit card number: " \o r
                  ELSE Message(t) =
                           "not a valid credit card number: "
                               \o customs[value[t].id].e.text

C1_Witness ==
    \E t, u \in Threads :
        /\ Failed(t) /\ value[t].impl = "text"
        /\ Failed(u) /\ value[u].impl = "custom"

\* C2: apply returns success exactly when the value's validate_credit_card
\* returned success, and an error exactly when it returned an error.
C2_PolarityPreserved ==
    \A t \in Threads :
        Done(t) =>
            /\ result[t].tag \in {"Ok", "Err"}
            /\ result[t].tag = "Ok" <=> cap[t].tag = "Ok"
            /\ result[t].tag = "Err" <=> cap[t].tag = "Err"

C2_Witness ==
    \E t, u \in Threads :
        /\ Done(t) /\ cap[t].tag = "Ok" /\ result[t].tag = "Ok"
        /\ Done(u) /\ cap[u].tag = "Err" /\ result[u].tag = "Err"

\* C3: the default adapter renders each of the four named raw reasons as its
\* own fixed message, the same for every text, and renders "unknown error"
\* only for a raw reason outside those four.
C3_ErrorMapping ==
    \A t \in Threads :
        (Failed(t) /\ value[t].impl = "text") =>
            LET k == cap[t].e.raw
                m == Message(t)
            IN  /\ k = "InvalidFormat" => m = Prefix \o "invalid format"
                /\ k = "InvalidLength" => m = Prefix \o "invalid length"
                /\ k = "InvalidLuhn" => m = Prefix \o "invalid luhn"
                /\ k = "UnknownType" => m = Prefix \o "unknown type"
                /\ m = Prefix \o "unknown error" => k \notin KnownKinds
                /\ \A u \in Threads :
                       (Failed(u) /\ value[u].impl = "text"
                            /\ cap[u].e.raw = k) => Message(u) = m

C3_Witness ==
    \E t, u \in Threads :
        /\ Failed(t) /\ value[t].impl = "text"
        /\ cap[t].e.raw = "InvalidLuhn"
        /\ Failed(u) /\ value[u].impl = "text"
        /\ cap[u].e.raw \in OtherKinds
        /\ Message(u) = Prefix \o "unknown error"

\* C4: every call of apply ends, and ends with exactly one outcome.  A call
\* in progress always has its next step to take, every step takes it one
\* position further (called, validated, done: it returns after two steps and
\* never goes back), and at its return it holds success and no Error
\* instance, or one error and that one Error instance; no Error instance and
\* no result exists before the return.
ExactlyOneOutcome(t) ==
    \/ result[t] = Ok /\ errors[t] = <<>>
    \/ result[t].tag = "Err" /\ errors[t] = <<result[t].e>>

CanStep(t) ==
    /\ pc[t] = "called" => ENABLED (validate_credit_card(t) \/ validate_credit_card_custom(t))
    /\ pc[t] = "validated" => ENABLED Return(t)

Forward ==
    {<<"idle", "called">>, <<"done", "called">>,
     <<"called", "validated">>, <<"validated", "done">>}

C4_OneOutcome ==
    /\ [](\A t \in Threads :
            /\ pc[t] \in {"idle", "called", "validated", "done"}
            /\ CanStep(t)
            /\ Done(t) => ExactlyOneOutcome(t)
            /\ ~Done(t) => result[t] = None /\ errors[t] = <<>>)
    /\ [][\A t \in Threads : StepOf(t) => <<pc[t], pc'[t]>> \in Forward]_vars

C4_Witness ==
    \E t \in Threads :
        /\ Failed(t) /\ Len(errors[t]) = 1
        /\ value[t].impl = "text" /\ cap[t].e.raw = "InvalidFormat"

\* C7: a second call of apply on the same value returns the result the call
\* before it returned.
C7_Idempotent ==
    \A t \in Threads : (Done(t) /\ prev[t] # None) => result[t] = prev[t]

C7_Witness ==
    \E t \in Threads : Failed(t) /\ prev[t] # None /\ prev[t].tag = "Err"

\* C8: under every interleaving each call returns what it returns when run
\* alone, and a step of one call leaves the value, the locals and the result
\* of every other call as they were.
Alone(v) ==
    IF v.impl = "text"
    THEN apply(Question(verdicts[v.text]))
    ELSE apply(customs[v.id])

C8_Independent ==
    [][\A t \in Threads :
           /\ Done(t)' => result'[t] = Alone(value[t])'
           /\ ~StepOf(t) =>
                  /\ value'[t] = value[t]
                  /\ arg'[t] = arg[t]
                  /\ cap'[t] = cap[t]
                  /\ result'[t] = result[t]
                  /\ errors'[t] = errors[t]
                  /\ prev'[t] = prev[t]]_vars

C8_Witness ==
    \E t, u \in Threads :
        /\ t # u
        /\ value[t] # value[u]
        /\ pc[t] = "validated" /\ pc[u] = "validated"
        /\ cap[t].tag # cap[u].tag

\* C9: from the call of apply to its return the borrowed value stays what it
\* was, and the steps of the call write nothing but the call's own locals and
\* its result.
C9_ValueUnchanged ==
    [][\A t \in Threads :
           (pc[t] \in {"called", "validated"} /\ StepOf(t)) =>
               /\ value'[t] = value[t]
               /\ prev' = prev
               /\ ncalls' = ncalls]_vars

C9_Witness ==
    \E t \in Threads :
        /\ Done(t)
        /\ value[t].impl = "text"
        /\ value[t].text = <<" ">>

\* C10: the default adapter hands the checker the value's text as it is and
\* returns the checker's verdict: success exactly when the checker accepts
\* that text, without the card descriptor, and otherwise the checker's raw
\* reason wrapped.
C10_Passthrough ==
    \A t \in Threads :
        (pc[t] \in {"validated", "done"} /\ value[t].impl = "text") =>
            LET o == verdicts[value[t].text] IN
                /\ arg[t] = [tag |-> "Str", text |-> value[t].text]
                /\ o \in CheckerOutcomes
                /\ o.tag = "Ok" <=> cap[t] = [tag |-> "Ok"]
                /\ o.tag = "Err" =>
                       cap[t] = [tag |-> "Err",
                                 e |-> [type |-> "InvalidCard", raw |-> o.kind]]

C10_Witness ==
    \E t, u \in Threads :
        /\ pc[t] = "validated" /\ value[t].impl = "text"
        /\ value[t].text = <<" ">> /\ cap[t].tag = "Err"
        /\ pc[u] = "validated" /\ value[u].impl = "text"
        /\ verdicts[value[u].text].tag = "Ok"
====
